---- MODULE Spec2Model ----
(***************************************************************************)
(* ContextKit for VS Code (src/src/extension.ts, the revision that starts  *)
(* at line 332 of the file): the workflows of the extension as a state     *)
(* machine.  Every invocation of a command, of the activation check or of  *)
(* a prompt callback is a task; a task is suspended at each await of the   *)
(* code that is followed by statements of the program, and one action runs *)
(* the code from one suspension point to the next.                         *)
(*                                                                         *)
(* Text is a sequence of tokens (characters, or whole marker words).       *)
(***************************************************************************)
EXTENDS Integers, Sequences, FiniteSets, TLC

\* ------------------------------------------------------------------ bounds
\* invocations (commands, the activation check) in one behaviour of Spec
MaxCommands == 1
\* index requests (the command, the activation check) in one behaviour of SpecIndex
MaxIndexReq == 2
\* index requests in one behaviour of SpecReady
MaxRuns == 1
\* entries of a doctor --json payload
MaxEntries == 1
\* characters of the configured cliPath
MaxPathLen == 2
\* requests (a query, the index command) in one behaviour of SpecOffer
MaxOfferReq == 2
\* requests (select by text, the status command) in one behaviour of SpecRunner
MaxCalls == 1
\* requests (the index command, select by text) in one behaviour of SpecLive
MaxLive == 1
\* queries (select by text, find symbol) in one behaviour of SpecOverlap
MaxQueries == 2
\* requests (index, select by text, status) in one behaviour of SpecLock
MaxLockReq == 2
\* invocations of select by selection in one behaviour of SpecSelection
MaxSelections == 1

\* ------------------------------------------------------------- vocabulary
Undefined == "undefined"

\* exit code null of the close event (code: number | null)
NullCode == -1

ExitCodes == {0, 1, NullCode}

\* the result of a runContextKit call that resolved with stdout
Resolved(stdout) == [ok |-> TRUE, val |-> stdout]

\* the result of a runContextKit call that rejected with an Error of that message
Rejected(message) == [ok |-> FALSE, val |-> message]

Statuses == {"ok", "warning", "error"}

\* the characters of the deny-list; BACKTICK stands for the grave accent
DenyChars == {";", "&", "|", "BACKTICK", "$"}

PathChars == {"c"} \cup DenyChars

DefaultCli == <<"contextkit">>

InvalidCliPath == <<"Invalid CLI path">>

RECURSIVE SeqsUpTo(_, _)
SeqsUpTo(S, n) ==
  IF n = 0 THEN {<<>>}
  ELSE LET shorter == SeqsUpTo(S, n - 1)
       IN shorter \cup {Append(s, x) : s \in {q \in shorter : Len(q) = n - 1}, x \in S}

Range(s) == {s[i] : i \in 1..Len(s)}

\* what doctor --json may print: a well-formed payload, or text that is no JSON
Malformed == <<"{not json">>

DoctorPayloads == SeqsUpTo(Statuses, MaxEntries) \cup {Malformed}

\* what a query may print: nothing, blanks, content, the marker of showCallGraph
QueryOutputs == {<<>>, <<" ">>, <<"md">>, <<"No call relationships">>}

\* what the user may type or select
UserTexts == {<<" ">>, <<" ", "a", "(", "b">>}

\* what the user may type as a query: blanks, a word, text with blanks and
\* characters a shell would interpret
RunnerTexts == {<<" ">>, <<"a">>, <<" ", "a", ";", " ", "$", "(", "b", " ">>,
                <<"&", "|", "BACKTICK">>}

\* the data events of stdout of one process: none, one chunk, two chunks
RunnerChunks == {<<>>, <<<<"md">>>>, <<<<"m">>, <<"d">>>>}

\* the prefix of the selection that selectContextFromSelection keeps
SliceLen == 500

\* n times the character c
Repeat(c, n) == [i \in 1..n |-> c]

\* what the editor selection may hold: nothing, blanks, short text, text
\* longer than the prefix, and text that begins after a prefix of blanks
SelectionTexts ==
  {<<>>, <<" ">>, <<" ", "a", " ">>,
   Repeat("a", SliceLen + 1),
   Repeat(" ", SliceLen - 1) \o <<"x", "y">>,
   Repeat(" ", SliceLen) \o <<"x">>}

DefaultBudget == 8000

MapBudget == 16000

\* a literal argument: every argument is a text
L(word) == <<word>>

LaunchError == <<"spawn", "ENOENT">>

QueryKinds == {"selectContext", "selectContextFromSelection", "findSymbol",
               "showCallGraph", "getCodebaseMap"}

\* the invocations; the activation check, when enabled, is the first
StartupTask == 1

Max(a, b) == IF a > b THEN a ELSE b

Tasks ==
  1..Max(Max(MaxCommands, Max(MaxOfferReq, Max(MaxCalls, MaxLive))),
         Max(Max(MaxIndexReq, MaxLockReq), Max(MaxRuns, Max(MaxQueries, MaxSelections))))

\* ------------------------------------------------------------------ state
VARIABLES
  activated,         \* activate() has run
  config,            \* the contextkit configuration section
  workspaceFolders,  \* vscode.workspace.workspaceFolders
  isIndexing,        \* the flag of the module
  statusVisible,     \* statusBarItem is shown
  clipboard,         \* vscode.env.clipboard
  tasks              \* the invocations: their position and locals

vars == <<activated, config, workspaceFolders, isIndexing, statusVisible,
          clipboard, tasks>>

env == <<activated, config, workspaceFolders>>

\* ----------------------------------------------------------- pure helpers
\* a deny-list test that looks at the first character only
HasDenyCharAnchored(p) == p # <<>> /\ p[1] \in DenyChars

\* the deny-list test of getCliPath
HasDenyChar(p) == \E i \in 1..Len(p) : p[i] \in DenyChars

getCliPath(configured) ==
  LET cliPath == IF configured = <<>> THEN DefaultCli ELSE configured
  IN IF HasDenyChar(cliPath)
     THEN Rejected(InvalidCliPath)
     ELSE Resolved(cliPath)

\* a lookup that falls back to a path when no folder is open
getWorkspacePathOrRoot(folders) ==
  IF Len(folders) = 0 THEN "/" ELSE folders[1]

getWorkspacePath(folders) ==
  IF Len(folders) = 0 THEN Undefined ELSE folders[1]

CodeText(code) == IF code = NullCode THEN "null" ELSE ToString(code)

\* a close handler that tests the exit code for being falsy
SettleFalsy(code, stdout, stderr) ==
  IF code = 0 \/ code = NullCode
  THEN Resolved(stdout)
  ELSE Rejected(IF stderr # <<>> THEN stderr ELSE <<"Exit code", CodeText(code)>>)

\* the close handler of runContextKit
Settle(code, stdout, stderr) ==
  IF code = 0
  THEN Resolved(stdout)
  ELSE Rejected(IF stderr # <<>> THEN stderr ELSE <<"Exit code", CodeText(code)>>)

\* stdout += data.toString(), over the data events of a process
RECURSIVE Accumulate(_)
Accumulate(chunks) ==
  IF chunks = <<>> THEN <<>> ELSE Head(chunks) \o Accumulate(Tail(chunks))

\* the error handler of runContextKit
LaunchFailure(error) == Rejected(error)

\* checks.some(c => c.status === error) of the startup check of the earlier revision
hasErrors(checks) == \E i \in 1..Len(checks) : checks[i] = "error"

\* JSON.parse of a payload: it throws on text that is no JSON
JSONparse(text) ==
  IF Range(text) \subseteq Statuses
  THEN Resolved(text)
  ELSE Rejected(<<"SyntaxError">>)

Msg(level, text) == [level |-> level, text |-> text]

IsSpace(c) == c = " "

\* the places of s that hold no whitespace
Solid(s) == {i \in 1..Len(s) : ~IsSpace(s[i])}

\* s from its first character that is no whitespace
TrimStart(s) ==
  IF Solid(s) = {} THEN <<>>
  ELSE SubSeq(s, CHOOSE i \in Solid(s) : \A j \in Solid(s) : i <= j, Len(s))

\* s up to its last character that is no whitespace
TrimEnd(s) ==
  IF Solid(s) = {} THEN <<>>
  ELSE SubSeq(s, 1, CHOOSE i \in Solid(s) : \A j \in Solid(s) : i >= j)

\* String.prototype.trim
Trim(s) == TrimEnd(TrimStart(s))

\* s.slice(0, n)
Slice(s, n) == SubSeq(s, 1, IF Len(s) < n THEN Len(s) ELSE n)

\* s.split(/[\s(]/)[0]
RECURSIVE FirstToken(_)
FirstToken(s) ==
  IF s = <<>> \/ IsSpace(Head(s)) \/ Head(s) = "("
  THEN <<>>
  ELSE <<Head(s)>> \o FirstToken(Tail(s))

\* text.includes(marker), for a marker that is one token
Includes(text, marker) == marker \in Range(text)

\* String(config.get(defaultBudget) || 8000)
Budget(configured) ==
  <<ToString(IF configured = 0 THEN DefaultBudget ELSE configured)>>

\* ------------------------------------------------------------------ tasks
Idle ==
  [kind |-> "none", via |-> "none", pc |-> "idle", step |-> "none",
   ws |-> Undefined, text |-> <<>>, argv |-> <<>>, out |-> <<>>,
   cmds |-> <<>>, results |-> <<>>, msgs |-> <<>>, outcome |-> "none",
   progress |-> "none", shown |-> <<>>, status |-> "none", answer |-> "none",
   event |-> <<>>, probe |-> <<>>]

Show(tk, level, text) == [tk EXCEPT !.msgs = Append(@, Msg(level, text))]

Return(tk, outcome) == [tk EXCEPT !.pc = "done", !.outcome = outcome]

\* runContextKit(args, workspacePath) up to its await of getCliPath()
Call(tk, step, args) == [tk EXCEPT !.pc = "cli", !.step = step, !.argv = args]

Report(tk, message) == [tk EXCEPT !.progress = message]

Set(t, tk) == tasks' = [tasks EXCEPT ![t] = tk]

\* showStatusBar(text, tooltip): the last write of the task to statusBarItem
showStatusBar(tk) == [tk EXCEPT !.status = "shown"]

\* a catch block that leaves the indicator as it is
hideStatusBarSkipped(tk) == tk

\* hideStatusBar()
hideStatusBar(tk) == [tk EXCEPT !.status = "hidden"]

\* notify(message)
notify(tk, message) ==
  IF config.showNotifications THEN Show(tk, "info", message) ELSE tk

\* -------------------------------------------------------- indexWorkspace
\* the guard of indexWorkspace
GuardRejects(flag) == flag

\* an entry whose guard shows the notice and goes on
EnterIndexNoReturn(via, flag, folders) ==
  LET me == [Idle EXCEPT !.kind = "indexWorkspace", !.via = via]
      on == [me EXCEPT !.pc = "ws", !.ws = getWorkspacePath(folders)]
  IN IF GuardRejects(flag)
     THEN Show(on, "info", <<"Indexing already in progress...">>)
     ELSE on

\* indexWorkspace() up to its first await: the guard, then getWorkspacePath().
\* The record of the task is from here on that of this invocation; via tells
\* what invoked it.
EnterIndex(via, flag, folders) ==
  LET me == [Idle EXCEPT !.kind = "indexWorkspace", !.via = via]
  IN IF GuardRejects(flag)
     THEN Return(Show(me, "info", <<"Indexing already in progress...">>), "rejected")
     ELSE [me EXCEPT !.pc = "ws", !.ws = getWorkspacePath(folders)]

\* the command contextkit.indexWorkspace
IndexCommand(t) ==
  /\ activated
  /\ tasks[t].pc = "idle"
  /\ Set(t, EnterIndex("indexWorkspace", isIndexing, workspaceFolders))
  /\ UNCHANGED <<env, isIndexing, statusVisible, clipboard>>

\* the flag after isIndexing = true
Acquire == TRUE

\* after await getWorkspacePath(): the early exit, or the flag and the
\* progress callback up to the await inside runContextKit(doctor --json)
IndexResume(t) ==
  /\ tasks[t].kind = "indexWorkspace"
  /\ tasks[t].pc = "ws"
  /\ IF tasks[t].ws = Undefined
     THEN /\ Set(t, Return(Show(tasks[t], "warning", <<"Open a folder first">>),
                           "absent"))
          /\ UNCHANGED isIndexing
     ELSE /\ isIndexing' = Acquire
          /\ Set(t, Call(Report(tasks[t], "Checking setup..."),
                         "doctor", <<L("doctor"), L("--json")>>))
  /\ UNCHANGED <<env, statusVisible, clipboard>>

\* a callback that stops after a successful check
IndexNextShortCircuit(step, ok) ==
  CASE step = "doctor" -> IF ok THEN "done" ELSE "init"
    [] step = "init"   -> IF ok THEN "stat" ELSE "failed"
    [] step = "add"    -> IF ok THEN "index" ELSE "failed"
    [] step = "index"  -> IF ok THEN "done" ELSE "failed"

\* a callback that goes on after a failed init
IndexNextToleratesInit(step, ok) ==
  CASE step = "doctor" -> IF ok THEN "index" ELSE "init"
    [] step = "init"   -> "stat"
    [] step = "add"    -> IF ok THEN "index" ELSE "failed"
    [] step = "index"  -> IF ok THEN "done" ELSE "failed"

\* a callback that gives up when doctor --json fails
IndexNextDoctorFatal(step, ok) ==
  CASE step = "doctor" -> IF ok THEN "index" ELSE "failed"
    [] step = "init"   -> IF ok THEN "stat" ELSE "failed"
    [] step = "add"    -> IF ok THEN "index" ELSE "failed"
    [] step = "index"  -> IF ok THEN "done" ELSE "failed"

\* a callback that indexes right after init
IndexNextSkipsAdd(step, ok) ==
  CASE step = "doctor" -> IF ok THEN "index" ELSE "init"
    [] step = "init"   -> IF ok THEN "index" ELSE "failed"
    [] step = "add"    -> IF ok THEN "index" ELSE "failed"
    [] step = "index"  -> IF ok THEN "done" ELSE "failed"

\* which step follows a settled command of the progress callback
IndexNext(step, ok) ==
  CASE step = "doctor" -> IF ok THEN "index" ELSE "init"
    [] step = "init"   -> IF ok THEN "stat" ELSE "failed"
    [] step = "add"    -> IF ok THEN "index" ELSE "failed"
    [] step = "index"  -> IF ok THEN "done" ELSE "failed"

\* a callback without the finally block
ReleaseSkipped == TRUE

\* the flag after the finally block
Release == FALSE

\* vscode.workspace.fs.stat(root/src): the FileStat of the entry, or the
\* rejection when there is none or when the filesystem fails
fsStat(entry, failing) ==
  IF failing THEN Rejected(<<"Unavailable">>)
  ELSE IF entry = "none" THEN Rejected(<<"FileNotFound">>)
  ELSE Resolved(<<entry>>)

\* a test that takes only a directory for the source folder
ThenTrueFalseDirectory(stat) == stat.ok /\ stat.val = <<"directory">>

\* .then(() => true, () => false)
ThenTrueFalse(stat) == stat.ok

SourcePath(srcExists) == IF srcExists THEN "./src" ELSE "."

\* the progress callback, from a settled runContextKit to its next await
IndexCont(t, tk, res) ==
  LET nxt == IndexNext(tk.step, res.ok)
  IN /\ CASE nxt = "init" ->
              /\ Set(t, Call(Report(tk, "Initializing..."), "init", <<L("init")>>))
              /\ UNCHANGED isIndexing
         [] nxt = "stat" ->
              /\ Set(t, [tk EXCEPT !.pc = "stat"])
              /\ UNCHANGED isIndexing
         [] nxt = "index" ->
              /\ Set(t, Call(Report(tk, "Indexing files..."), "index", <<L("index")>>))
              /\ UNCHANGED isIndexing
         [] nxt = "done" ->
              /\ Set(t, Return(Show(tk, "info", <<"Indexing complete">>), "complete"))
              /\ isIndexing' = Release
         [] nxt = "failed" ->
              /\ Set(t, Return(Show(tk, "error", <<"Indexing failed: ">> \o res.val),
                               "failed"))
              /\ isIndexing' = Release
     /\ UNCHANGED <<statusVisible, clipboard>>

\* vscode.workspace.fs.stat(root/src).then(() => true, () => false) settles
StatSettles(t, entry, failing) ==
  /\ tasks[t].kind = "indexWorkspace"
  /\ tasks[t].pc = "stat"
  /\ LET stat      == fsStat(entry, failing)
         srcExists == ThenTrueFalse(stat)
     IN Set(t, Call([tasks[t] EXCEPT !.probe = <<[entry |-> entry, stat |-> stat]>>],
                    "add", <<L("source"), L("add"), L(SourcePath(srcExists))>>))
  /\ UNCHANGED <<env, isIndexing, statusVisible, clipboard>>

\* ---------------------------------------------------- silentCheckAndIndex
\* activate(): the commands are registered; the startup check runs if enabled
Activate ==
  /\ ~activated
  /\ activated' = TRUE
  /\ IF config.autoIndex
     THEN Set(StartupTask,
              [tasks[StartupTask] EXCEPT !.kind = "silentCheckAndIndex",
                 !.via = "silentCheckAndIndex", !.pc = "ws",
                 !.ws = getWorkspacePath(workspaceFolders)])
     ELSE UNCHANGED tasks
  /\ UNCHANGED <<config, workspaceFolders, isIndexing, statusVisible, clipboard>>

SilentResume(t) ==
  /\ tasks[t].kind = "silentCheckAndIndex"
  /\ tasks[t].pc = "ws"
  /\ IF tasks[t].ws = Undefined
     THEN Set(t, Return(tasks[t], "absent"))
     ELSE Set(t, Call(tasks[t], "doctor", <<L("doctor"), L("--json")>>))
  /\ UNCHANGED <<env, isIndexing, statusVisible, clipboard>>

\* the verdict of the startup check on a settled doctor --json
SilentReady(res) == res.ok

SilentCont(t, tk, res) ==
  /\ IF SilentReady(res)
     THEN Set(t, Return(tk, "ready"))
     ELSE Set(t, [Show(tk, "prompt",
                       <<"ContextKit: Index this workspace for smart code search?">>)
                    EXCEPT !.pc = "prompt"])
  /\ UNCHANGED <<isIndexing, statusVisible, clipboard>>

\* a callback that starts the run whatever the answer
AcceptsAny(action) == TRUE

\* the test of the answer to a prompt that offers Index Now
Accepts(action) == action = "Index Now"

\* the startup prompt is answered (Index Now, Later) or dismissed
SilentAnswer(t, action) ==
  /\ tasks[t].kind = "silentCheckAndIndex"
  /\ tasks[t].pc = "prompt"
  /\ IF Accepts(action)
     THEN Set(t, EnterIndex("silentCheckAndIndex", isIndexing, workspaceFolders))
     ELSE Set(t, Return(tasks[t], "declined"))
  /\ UNCHANGED <<env, isIndexing, statusVisible, clipboard>>

\* ------------------------------------------------------------ handleError
\* the branch of handleError for a message
Classify(msg) ==
  IF Includes(msg, "not initialized") \/ Includes(msg, "ENOENT") THEN "offer"
  ELSE IF Includes(msg, "ENOENT") \/ Includes(msg, "not found") THEN "hint"
  ELSE "raw"

\* handleError(error, workspacePath), and the return of the workflow
handleError(tk, msg) ==
  CASE Classify(msg) = "offer" ->
         [Show(tk, "errorPrompt", <<"Workspace not indexed">>)
            EXCEPT !.pc = "offer", !.outcome = "failed"]
    [] Classify(msg) = "hint" ->
         Return(Show(tk, "error", <<"ContextKit CLI not found">>), "failed")
    [] Classify(msg) = "raw" ->
         Return(Show(tk, "error", <<"ContextKit: ">> \o msg), "failed")

\* the answers to the prompt of handleError: its one button, or dismissal
OfferAnswers == {"Index Now", Undefined}

\* the prompt of handleError is answered (Index Now) or dismissed
OfferAnswer(t, action) ==
  /\ tasks[t].pc = "offer"
  /\ IF Accepts(action)
     THEN Set(t, [EnterIndex("handleError", isIndexing, workspaceFolders)
                    EXCEPT !.answer = action])
     ELSE Set(t, [tasks[t] EXCEPT !.pc = "done", !.answer = action])
  /\ UNCHANGED <<env, isIndexing, statusVisible, clipboard>>

\* ---------------------------------------------------------- the queries
\* the workflows that warn when no folder is open
WarnsAbsent == {"selectContext", "findSymbol", "getCodebaseMap", "indexWorkspace",
                "showStatus"}

\* an argument vector that holds every token of the text as an argument
QueryArgsSplit(kind, text, budget) ==
  <<L("select")>> \o [i \in 1..Len(Trim(text)) |-> <<Trim(text)[i]>>]
    \o <<L("--budget"), budget, L("--format"), L("markdown")>>

\* the argument vector of a query
QueryArgs(kind, text, budget) ==
  CASE kind = "selectContext" ->
         <<L("select"), Trim(text), L("--budget"), budget, L("--format"), L("markdown")>>
    [] kind = "selectContextFromSelection" ->
         <<L("select"), <<"Related to: ">> \o Trim(Slice(text, SliceLen)),
           L("--budget"), budget, L("--format"), L("markdown")>>
    [] kind = "findSymbol" -> <<L("symbol"), Trim(text)>>
    [] kind = "showCallGraph" -> <<L("graph"), Trim(text)>>
    [] kind = "getCodebaseMap" ->
         <<L("select"), IF Trim(text) # <<>> THEN Trim(text) ELSE L("codebase overview"),
           L("--mode"), L("map"), L("--budget"), <<ToString(MapBudget)>>>>

\* a query that gives way to a run of indexWorkspace
StartQueryUnlessIndexing(tk, text) ==
  IF isIndexing
  THEN Return(Show(tk, "info", <<"Indexing already in progress...">>), "rejected")
  ELSE Call(showStatusBar([tk EXCEPT !.text = text]), "query",
            QueryArgs(tk.kind, text, Budget(config.defaultBudget)))

\* showStatusBar(...), then runContextKit(...) up to its await
StartQuery(tk, text) ==
  Call(showStatusBar([tk EXCEPT !.text = text]), "query",
       QueryArgs(tk.kind, text, Budget(config.defaultBudget)))

\* a query command, up to its first await
QueryCommand(t, kind, editor, selection) ==
  /\ activated
  /\ tasks[t].pc = "idle"
  /\ kind \in QueryKinds
  /\ LET me == [tasks[t] EXCEPT !.kind = kind, !.via = kind]
     IN IF kind \in {"selectContextFromSelection", "showCallGraph"} /\ ~editor
        THEN Set(t, Return(IF kind = "showCallGraph"
                           THEN Show(me, "warning", <<"Open a file first">>)
                           ELSE me,
                           "noeditor"))
        ELSE IF kind = "selectContextFromSelection" /\ Trim(selection) = <<>>
        THEN Set(t, Return(Show(me, "warning", <<"Select some code first">>),
                           "noselection"))
        ELSE Set(t, [me EXCEPT !.pc = "ws",
                               !.ws = getWorkspacePath(workspaceFolders),
                               !.text = IF kind = "selectContextFromSelection"
                                        THEN selection ELSE <<>>])
  /\ UNCHANGED <<env, isIndexing, statusVisible, clipboard>>

\* after await getWorkspacePath() in a query
QueryResume(t, selection) ==
  /\ tasks[t].kind \in QueryKinds
  /\ tasks[t].pc = "ws"
  /\ LET tk == tasks[t]
     IN IF tk.ws = Undefined
        THEN /\ Set(t, Return(IF tk.kind \in WarnsAbsent
                              THEN Show(tk, "warning", <<"Open a folder first">>)
                              ELSE tk,
                              "absent"))
             /\ UNCHANGED statusVisible
        ELSE IF tk.kind = "selectContextFromSelection"
        THEN /\ Set(t, StartQuery(tk, tk.text))
             /\ statusVisible' = TRUE
        ELSE IF tk.kind = "showCallGraph" /\ Trim(selection) # <<>>
        THEN IF Trim(FirstToken(Trim(selection))) = <<>>
             THEN /\ Set(t, Return(tk, "cancelled"))
                  /\ UNCHANGED statusVisible
             ELSE /\ Set(t, StartQuery(tk, FirstToken(Trim(selection))))
                  /\ statusVisible' = TRUE
        ELSE /\ Set(t, [tk EXCEPT !.pc = "input"])
             /\ UNCHANGED statusVisible
  /\ UNCHANGED <<env, isIndexing, clipboard>>

\* showInputBox settles: a text, or undefined when the box is dismissed
InputAnswer(t, given, text) ==
  /\ tasks[t].pc = "input"
  /\ LET tk    == tasks[t]
         typed == IF given THEN text ELSE <<>>
     IN IF tk.kind # "getCodebaseMap" /\ Trim(typed) = <<>>
        THEN /\ Set(t, Return(tk, "cancelled"))
             /\ UNCHANGED statusVisible
        ELSE /\ Set(t, StartQuery(tk, typed))
             /\ statusVisible' = TRUE
  /\ UNCHANGED <<env, isIndexing, clipboard>>

\* a test of the result that does not trim it
IsEmptyResultUntrimmed(kind, result) ==
  \/ result = <<>>
  \/ kind = "showCallGraph" /\ Includes(result, "No call relationships")

\* the test of a result for being no result
IsEmptyResult(kind, result) ==
  \/ Trim(result) = <<>>
  \/ kind = "showCallGraph" /\ Includes(result, "No call relationships")

EmptyNotice(kind) ==
  CASE kind = "selectContext" -> <<"No relevant code found. Try indexing first.">>
    [] kind = "selectContextFromSelection" -> <<"No related code found">>
    [] kind = "findSymbol" -> <<"No symbols found matching">>
    [] kind = "showCallGraph" -> <<"No call graph found for">>
    [] kind = "getCodebaseMap" -> <<"Could not generate map. Try indexing first.">>

DoneNotice(kind) ==
  CASE kind = "selectContext" -> <<"Context copied to clipboard">>
    [] kind = "selectContextFromSelection" -> <<"Related code copied to clipboard">>
    [] kind = "findSymbol" -> <<"Symbol results copied to clipboard">>
    [] kind = "showCallGraph" -> <<"Call graph generated">>
    [] kind = "getCodebaseMap" -> <<"Codebase map copied to clipboard">>

\* the content of the document a query opens
DocContent(kind, result) ==
  IF kind = "getCodebaseMap" THEN <<"# Codebase Map">> \o result ELSE result

\* a copy of the content of the document instead of the result
writeTextOfDocument(tk) == DocContent(tk.kind, tk.out)

\* vscode.env.clipboard.writeText(result): what the clipboard then holds
writeText(tk) == tk.out

\* a query, from the settled runContextKit to its next await or its return
QueryCont(t, tk, res) ==
  /\ IF ~res.ok
     THEN /\ Set(t, handleError(hideStatusBar(tk), res.val))
          /\ statusVisible' = FALSE
     ELSE IF IsEmptyResult(tk.kind, res.val)
     THEN /\ Set(t, Return(Show(hideStatusBar(tk), "warning", EmptyNotice(tk.kind)),
                           "empty"))
          /\ statusVisible' = FALSE
     ELSE /\ Set(t, [tk EXCEPT !.pc = "open", !.out = res.val])
          /\ UNCHANGED statusVisible
  /\ UNCHANGED <<isIndexing, clipboard>>

\* openTextDocument, showTextDocument or clipboard.writeText settles
PublishSettles(t, ok, error) ==
  /\ tasks[t].pc \in {"open", "show", "clip"}
  /\ LET tk == tasks[t]
     IN IF ~ok
        THEN /\ Set(t, handleError(hideStatusBar(tk), error))
             /\ statusVisible' = FALSE
             /\ UNCHANGED clipboard
        ELSE IF tk.pc = "open"
        THEN /\ Set(t, [tk EXCEPT !.pc = "show"])
             /\ UNCHANGED <<statusVisible, clipboard>>
        ELSE IF tk.pc = "show" /\ tk.kind # "showCallGraph"
        THEN /\ Set(t, [tk EXCEPT !.pc = "clip",
                                  !.shown = DocContent(tk.kind, tk.out)])
             /\ UNCHANGED <<statusVisible, clipboard>>
        ELSE /\ Set(t, Return(notify(hideStatusBar([tk EXCEPT !.shown =
                                                       DocContent(tk.kind, tk.out)]),
                                     DoneNotice(tk.kind)),
                              "published"))
             /\ statusVisible' = FALSE
             /\ clipboard' = IF tk.pc = "clip" THEN writeText(tk) ELSE clipboard
  /\ UNCHANGED <<env, isIndexing>>

\* -------------------------------------------------------------- showStatus
StatusCommand(t) ==
  /\ activated
  /\ tasks[t].pc = "idle"
  /\ Set(t, [tasks[t] EXCEPT !.kind = "showStatus", !.via = "showStatus",
                             !.pc = "ws", !.ws = getWorkspacePath(workspaceFolders)])
  /\ UNCHANGED <<env, isIndexing, statusVisible, clipboard>>

StatusResume(t) ==
  /\ tasks[t].kind = "showStatus"
  /\ tasks[t].pc = "ws"
  /\ IF tasks[t].ws = Undefined
     THEN Set(t, Return(Show(tasks[t], "warning", <<"Open a folder first">>), "absent"))
     ELSE Set(t, Call(tasks[t], "status", <<L("doctor")>>))
  /\ UNCHANGED <<env, isIndexing, statusVisible, clipboard>>

StatusCont(t, tk, res) ==
  /\ IF res.ok
     THEN Set(t, Return(Show(tk, "output", <<"ContextKit Status">> \o res.val),
                        "shown"))
     ELSE Set(t, Return(Show(tk, "output",
                             <<"ContextKit CLI not available", "Error: ">> \o res.val),
                        "unavailable"))
  /\ UNCHANGED <<isIndexing, statusVisible, clipboard>>

\* ----------------------------------------------------------- runContextKit
\* the promise of a runContextKit call settles with res, and the code that
\* awaits it goes on
Deliver(t, me, res) ==
  LET tk == [me EXCEPT !.results = Append(@, [args |-> me.argv, res |-> res])]
  IN CASE tk.kind = "indexWorkspace"      -> IndexCont(t, tk, res)
       [] tk.kind = "silentCheckAndIndex" -> SilentCont(t, tk, res)
       [] tk.kind = "showStatus"          -> StatusCont(t, tk, res)
       [] tk.kind \in QueryKinds          -> QueryCont(t, tk, res)

Settled(t, res) == Deliver(t, tasks[t], res)

\* spawn(cli, args, {cwd, shell: false, env})
Spawned(tk, cli) ==
  [tk EXCEPT !.pc = "proc",
             !.cmds = Append(@, [cli |-> cli, args |-> tk.argv, cwd |-> tk.ws,
                                 shell |-> FALSE])]

\* after await getCliPath(): the throw, or spawn and the handlers
CliResume(t) ==
  /\ tasks[t].pc = "cli"
  /\ LET cli == getCliPath(config.cliPath)
     IN IF cli.ok
        THEN /\ Set(t, Spawned(tasks[t], cli.val))
             /\ UNCHANGED <<isIndexing, statusVisible, clipboard>>
        ELSE Settled(t, cli)
  /\ UNCHANGED env

\* the close event: the call settles with res = Settle(code, stdout, stderr)
ProcClose(t, res) ==
  /\ tasks[t].pc = "proc"
  /\ Settled(t, res)
  /\ UNCHANGED env

\* the error event: the program could not be started
ProcError(t) ==
  /\ tasks[t].pc = "proc"
  /\ Settled(t, LaunchFailure(LaunchError))
  /\ UNCHANGED env

\* -------------------------------------------------------------------- Init
\* the configured paths: at most one character of the deny-list, at any place
Paths ==
  {p \in SeqsUpTo(PathChars, MaxPathLen) :
     Cardinality({i \in 1..Len(p) : p[i] \in DenyChars}) <= 1}

Configs ==
  [cliPath : Paths,
   showNotifications : BOOLEAN,
   autoIndex : BOOLEAN,
   defaultBudget : {0}]

Init ==
  /\ activated = FALSE
  /\ config \in Configs
  /\ workspaceFolders \in {<<>>, <<"/ws">>}
  /\ isIndexing = FALSE
  /\ statusVisible = FALSE
  /\ clipboard = <<>>
  /\ tasks = [t \in Tasks |-> Idle]

Answers == {"Index Now", "Later", Undefined}

\* ------------------------------------------------ the whole extension: Spec
\* what the tool may print on stdout, by command
Stdouts(step) ==
  CASE step = "doctor" -> {<<"ok">>}
    [] step = "query"  -> QueryOutputs
    [] OTHER           -> {<<"log">>}

\* what the tool may print on stderr, by command
Stderrs(step) ==
  IF step = "query" THEN {<<"not initialized">>, <<"boom">>} ELSE {<<"boom">>}

\* how a subprocess may close
Closes(step) ==
  {Settle(code, out, err) : code \in {0, 1}, out \in Stdouts(step),
                            err \in Stderrs(step)}

Next ==
  \/ Activate
  \/ \E t \in 1..MaxCommands : IndexCommand(t)
  \/ \E t \in 1..MaxCommands : StatusCommand(t)
  \/ \E t \in 1..MaxCommands, kind \in QueryKinds, editor \in BOOLEAN,
        selection \in UserTexts : QueryCommand(t, kind, editor, selection)
  \/ \E t \in Tasks : IndexResume(t)
  \/ \E t \in Tasks : SilentResume(t)
  \/ \E t \in Tasks : StatusResume(t)
  \/ \E t \in Tasks, selection \in UserTexts : QueryResume(t, selection)
  \/ \E t \in Tasks, given \in BOOLEAN, text \in UserTexts : InputAnswer(t, given, text)
  \/ \E t \in Tasks : CliResume(t)
  \/ \E t \in Tasks : \E res \in Closes(tasks[t].step) : ProcClose(t, res)
  \/ \E t \in Tasks : ProcError(t)
  \/ \E t \in Tasks, ok \in BOOLEAN : PublishSettles(t, ok, <<"boom">>)
  \/ \E t \in Tasks, entry \in {"none", "directory"} : StatSettles(t, entry, FALSE)
  \/ \E t \in Tasks, action \in Answers : SilentAnswer(t, action)
  \/ \E t \in Tasks, action \in OfferAnswers : OfferAnswer(t, action)

Spec == Init /\ [][Next]_vars

\* ------------------------------------- concurrent index requests: SpecIndex
\* how a subprocess of an index request may close
IndexCloses(step) ==
  {Settle(code, out, err) : code \in {0, 1},
                            out \in (IF step = "doctor" THEN {<<"ok">>} ELSE {<<"log">>}),
                            err \in {<<"boom">>}}

\* the index requests alone: the command, and the accepted startup prompt
NextIndex ==
  \/ Activate
  \/ \E t \in 1..MaxIndexReq : IndexCommand(t)
  \/ \E t \in Tasks : IndexResume(t)
  \/ \E t \in Tasks : SilentResume(t)
  \/ \E t \in Tasks : CliResume(t)
  \/ \E t \in Tasks : \E res \in IndexCloses(tasks[t].step) : ProcClose(t, res)
  \/ \E t \in Tasks, entry \in {"none", "directory"} : StatSettles(t, entry, FALSE)
  \/ \E t \in Tasks, action \in Answers : SilentAnswer(t, action)

SpecIndex == Init /\ [][NextIndex]_vars

\* ------------------------------ one index request, any payload: SpecReady
\* how a subprocess may close when doctor --json prints any payload
ReadyCloses(step) ==
  {Settle(code, out, err) : code \in ExitCodes,
                            out \in (IF step = "doctor" THEN DoctorPayloads
                                                        ELSE {<<"log">>}),
                            err \in {<<>>, <<"boom">>}}

NextReady ==
  \/ Activate
  \/ \E t \in 1..MaxRuns : IndexCommand(t)
  \/ \E t \in Tasks : IndexResume(t)
  \/ \E t \in Tasks : SilentResume(t)
  \/ \E t \in Tasks : CliResume(t)
  \/ \E t \in Tasks : \E res \in ReadyCloses(tasks[t].step) : ProcClose(t, res)
  \/ \E t \in Tasks : ProcError(t)
  \/ \E t \in Tasks, entry \in {"none", "directory"} : StatSettles(t, entry, FALSE)
  \/ \E t \in Tasks, action \in Answers : SilentAnswer(t, action)

SpecReady == Init /\ [][NextReady]_vars

\* ------------------- a failed query, its offer, an index request: SpecOffer
\* how a subprocess may close in a workspace the tool calls not initialized
\* for queries; the commands of a run succeed
OfferCloses(step) ==
  IF step = "query"
  THEN {Settle(1, <<>>, <<"not initialized">>), Settle(1, <<>>, <<"boom">>)}
  ELSE {Settle(0, <<"log">>, <<>>)}

NextOffer ==
  \/ Activate
  \/ \E t \in 1..MaxOfferReq : IndexCommand(t)
  \/ \E t \in 1..MaxOfferReq : QueryCommand(t, "findSymbol", TRUE, <<>>)
  \/ \E t \in Tasks : IndexResume(t)
  \/ \E t \in Tasks : QueryResume(t, <<>>)
  \/ \E t \in Tasks : InputAnswer(t, TRUE, <<"a">>)
  \/ \E t \in Tasks : CliResume(t)
  \/ \E t \in Tasks : \E res \in OfferCloses(tasks[t].step) : ProcClose(t, res)
  \/ \E t \in Tasks, action \in OfferAnswers : OfferAnswer(t, action)

SpecOffer == Init /\ [][NextOffer]_vars

\* --------------------- the process runner under any close event: SpecRunner
\* the events of the process of a call, as the handlers of runContextKit see
\* them; the task keeps the last one
CloseEvent(code, chunks, stderr) ==
  [kind |-> "close", code |-> code, chunks |-> chunks, stderr |-> stderr,
   error |-> <<>>]

ErrorEvent(error) ==
  [kind |-> "error", code |-> NullCode, chunks |-> <<>>, stderr |-> <<>>,
   error |-> error]

\* the data events, then the close event
RunnerClose(t, code, chunks, stderr) ==
  /\ tasks[t].pc = "proc"
  /\ Deliver(t, [tasks[t] EXCEPT !.event = <<CloseEvent(code, chunks, stderr)>>],
             Settle(code, Accumulate(chunks), stderr))
  /\ UNCHANGED env

\* the error event
RunnerError(t) ==
  /\ tasks[t].pc = "proc"
  /\ Deliver(t, [tasks[t] EXCEPT !.event = <<ErrorEvent(LaunchError)>>],
             LaunchFailure(LaunchError))
  /\ UNCHANGED env

NextRunner ==
  \/ Activate
  \/ \E t \in 1..MaxCalls : QueryCommand(t, "selectContext", TRUE, <<>>)
  \/ \E t \in 1..MaxCalls : StatusCommand(t)
  \/ \E t \in Tasks : QueryResume(t, <<>>)
  \/ \E t \in Tasks : StatusResume(t)
  \/ \E t \in Tasks, given \in BOOLEAN, text \in RunnerTexts : InputAnswer(t, given, text)
  \/ \E t \in Tasks : CliResume(t)
  \/ \E t \in Tasks, code \in ExitCodes, chunks \in RunnerChunks,
        stderr \in {<<>>, <<"boom">>} : RunnerClose(t, code, chunks, stderr)
  \/ \E t \in Tasks : RunnerError(t)
  \/ \E t \in Tasks, ok \in BOOLEAN : PublishSettles(t, ok, <<"boom">>)

SpecRunner == Init /\ [][NextRunner]_vars

\* ------------------- one run that repairs, any filesystem answer: SpecRepair
\* what may be at root/src
Entries == {"none", "file", "directory"}

\* how a subprocess may close in a workspace that is not initialized
RepairCloses(step) ==
  IF step = "doctor"
  THEN {Settle(1, <<>>, <<"not initialized">>)}
  ELSE {Settle(code, <<"log">>, <<"boom">>) : code \in {0, 1}}

NextRepair ==
  \/ Activate
  \/ \E t \in 1..MaxRuns : IndexCommand(t)
  \/ \E t \in Tasks : IndexResume(t)
  \/ \E t \in Tasks : CliResume(t)
  \/ \E t \in Tasks : \E res \in RepairCloses(tasks[t].step) : ProcClose(t, res)
  \/ \E t \in Tasks : ProcError(t)
  \/ \E t \in Tasks, entry \in Entries, failing \in BOOLEAN : StatSettles(t, entry, failing)

SpecRepair == Init /\ [][NextRepair]_vars

\* ------------------------ every awaited operation settles: SpecLive
\* how a subprocess may close
LiveCloses(step) ==
  IF step = "query"
  THEN {Settle(0, <<"md">>, <<>>), Settle(0, <<>>, <<>>),
        Settle(1, <<>>, <<"not initialized">>)}
  ELSE {Settle(0, <<"log">>, <<>>), Settle(1, <<>>, <<"boom">>)}

\* a process of task t emits close or error
ProcSettles(t) ==
  \/ \E res \in LiveCloses(tasks[t].step) : ProcClose(t, res)
  \/ ProcError(t)

\* the existence check of task t answers
StatAnswers(t) ==
  \E entry \in {"none", "directory"} : StatSettles(t, entry, FALSE)

\* an editor operation of task t settles
EditorSettles(t) == \E ok \in BOOLEAN : PublishSettles(t, ok, <<"boom">>)

\* the default CLI path or one the deny-list rejects; no startup check
InitLive ==
  /\ Init
  /\ config.cliPath \in {<<>>, <<";">>}
  /\ ~config.autoIndex

NextLive ==
  \/ Activate
  \/ \E t \in 1..MaxLive : IndexCommand(t)
  \/ \E t \in 1..MaxLive : QueryCommand(t, "selectContext", TRUE, <<>>)
  \/ \E t \in Tasks : IndexResume(t)
  \/ \E t \in Tasks : QueryResume(t, <<>>)
  \/ \E t \in Tasks, given \in BOOLEAN : InputAnswer(t, given, <<"a">>)
  \/ \E t \in Tasks : CliResume(t)
  \/ \E t \in Tasks : ProcSettles(t)
  \/ \E t \in Tasks : StatAnswers(t)
  \/ \E t \in Tasks : EditorSettles(t)
  \/ \E t \in Tasks, action \in OfferAnswers : OfferAnswer(t, action)

\* the code after an await runs once the awaited promise has settled; every
\* process emits close or error; the existence check and the operations of
\* the editor settle. Nothing is assumed of the user: commands, the input
\* box and the prompts may never come.
Fairness ==
  \A t \in Tasks :
    /\ WF_vars(IndexResume(t))
    /\ WF_vars(QueryResume(t, <<>>))
    /\ WF_vars(CliResume(t))
    /\ WF_vars(ProcSettles(t))
    /\ WF_vars(StatAnswers(t))
    /\ WF_vars(EditorSettles(t))

SpecLive == InitLive /\ [][NextLive]_vars /\ Fairness

\* --------------------------------------- queries that overlap: SpecOverlap
\* how the subprocess of a query may close
OverlapCloses == {Settle(0, <<"md">>, <<>>), Settle(0, <<>>, <<>>), Settle(1, <<>>, <<"boom">>)}

NextOverlap ==
  \/ Activate
  \/ \E t \in 1..MaxQueries, kind \in {"selectContext", "findSymbol"} :
        QueryCommand(t, kind, TRUE, <<>>)
  \/ \E t \in Tasks : QueryResume(t, <<>>)
  \/ \E t \in Tasks, given \in BOOLEAN : InputAnswer(t, given, <<"a">>)
  \/ \E t \in Tasks : CliResume(t)
  \/ \E t \in Tasks : \E res \in OverlapCloses : ProcClose(t, res)
  \/ \E t \in Tasks, ok \in BOOLEAN : PublishSettles(t, ok, <<"boom">>)

SpecOverlap == Init /\ [][NextOverlap]_vars

\* ------------------- queries and checks beside a run: SpecLock
\* how a subprocess may close
LockCloses(step) ==
  CASE step = "doctor" -> {Settle(0, <<"ok">>, <<>>), Settle(1, <<>>, <<"boom">>)}
    [] step = "query"  -> {Settle(0, <<"md">>, <<>>), Settle(1, <<>>, <<"boom">>)}
    [] OTHER           -> {Settle(0, <<"log">>, <<>>)}

\* the default CLI path or one the deny-list rejects
InitLock ==
  /\ Init
  /\ config.cliPath \in {<<>>, <<";">>}

NextLock ==
  \/ Activate
  \/ \E t \in 1..MaxLockReq : IndexCommand(t)
  \/ \E t \in 1..MaxLockReq : StatusCommand(t)
  \/ \E t \in 1..MaxLockReq : QueryCommand(t, "selectContext", TRUE, <<>>)
  \/ \E t \in Tasks : IndexResume(t)
  \/ \E t \in Tasks : SilentResume(t)
  \/ \E t \in Tasks : StatusResume(t)
  \/ \E t \in Tasks : QueryResume(t, <<>>)
  \/ \E t \in Tasks : InputAnswer(t, TRUE, <<"a">>)
  \/ \E t \in Tasks : CliResume(t)
  \/ \E t \in Tasks : \E res \in LockCloses(tasks[t].step) : ProcClose(t, res)
  \/ \E t \in Tasks : PublishSettles(t, TRUE, <<>>)
  \/ \E t \in Tasks : StatSettles(t, "directory", FALSE)
  \/ \E t \in Tasks, action \in {"Index Now", "Later"} : SilentAnswer(t, action)

SpecLock == InitLock /\ [][NextLock]_vars

\* ------------------------------- select by selection alone: SpecSelection
\* how the subprocess of the query may close
SelectionCloses == {Settle(0, <<"md">>, <<>>), Settle(1, <<>>, <<"boom">>)}

NextSelection ==
  \/ Activate
  \/ \E t \in 1..MaxSelections, editor \in BOOLEAN, selection \in SelectionTexts :
        QueryCommand(t, "selectContextFromSelection", editor, selection)
  \/ \E t \in Tasks : QueryResume(t, <<>>)
  \/ \E t \in Tasks : CliResume(t)
  \/ \E t \in Tasks : \E res \in SelectionCloses : ProcClose(t, res)
  \/ \E t \in Tasks : PublishSettles(t, TRUE, <<>>)

SpecSelection == InitLock /\ [][NextSelection]_vars

\* ------------------------------------------------------------- properties
\* task t is an invocation of indexWorkspace
IsRun(t) == tasks[t].kind = "indexWorkspace"

\* task t is between isIndexing = true and the finally block
InSession(t) == IsRun(t) /\ tasks[t].pc \in {"cli", "proc", "stat"}

\* the first words of the commands task t has spawned
Spawns(t) == [i \in 1..Len(tasks[t].cmds) |-> tasks[t].cmds[i].args[1][1]]

\* the first words of the commands task t has spawned after doctor
Repairs(t) == SubSeq(Spawns(t), 2, Len(Spawns(t)))

\* the doctor --json of task t has settled with exit status 0
DoctorResolved(t) ==
  /\ tasks[t].results # <<>>
  /\ tasks[t].results[1].args = <<L("doctor"), L("--json")>>
  /\ tasks[t].results[1].res.ok

\* what that doctor --json printed
Payload(t) == tasks[t].results[1].res.val

\* the payload of task t is a sequence of entries, and says whether one is error
WellFormed(t) == JSONparse(Payload(t)).ok

\* the decision of task t on a settled doctor --json has just been taken
Decided(t) == Len(tasks[t].results) = 1

\* what task t decided: a run goes on to index, the startup check returns
DecidedReady(t) ==
  IF IsRun(t) THEN tasks[t].step = "index" ELSE tasks[t].outcome = "ready"

\* C1: at most one run of indexWorkspace is between acquiring isIndexing and
\* its cleanup, and at most one chain of doctor, init, source add, index is
\* active, under every interleaving of index requests at the awaits.
C1_AtMostOneRun == Cardinality({t \in Tasks : InSession(t)}) <= 1

\* two runs have each spawned a process that has not closed
C1_Witness ==
  \E t, u \in Tasks :
    /\ t # u
    /\ InSession(t) /\ tasks[t].pc = "proc"
    /\ InSession(u) /\ tasks[u].pc = "proc"

\* C2: an index request that finds isIndexing true returns at once with the
\* notice Indexing already in progress, spawns nothing, changes no other
\* state, and nothing happens later on its behalf.
C2_Rejection ==
  [][\A t \in Tasks :
       /\ (~IsRun(t) /\ tasks'[t].kind = "indexWorkspace" /\ isIndexing)
            => /\ tasks'[t].pc = "done"
               /\ tasks'[t].outcome = "rejected"
               /\ tasks'[t].cmds = <<>>
               /\ tasks'[t].msgs = <<Msg("info", <<"Indexing already in progress...">>)>>
               /\ UNCHANGED <<env, isIndexing, statusVisible, clipboard>>
               /\ \A u \in Tasks \ {t} : tasks'[u] = tasks[u]
       /\ tasks[t].outcome = "rejected" => tasks'[t] = tasks[t]]_vars

\* a request was rejected, the run it met has completed, nothing more started
C2_Witness ==
  \E t, u \in Tasks :
    /\ tasks[t].outcome = "rejected" /\ tasks[t].pc = "done"
    /\ tasks[u].outcome = "complete"
    /\ ~isIndexing

\* C3: whenever an invocation of indexWorkspace returns after success, after
\* a failure of any step (an invalid CLI path included) or at the early exit
\* for no workspace, isIndexing is false.
C3_Cleanup ==
  [][\A t \in Tasks :
       (/\ tasks'[t].kind = "indexWorkspace"
        /\ tasks[t].pc # "done"
        /\ tasks'[t].pc = "done"
        /\ tasks'[t].outcome \in {"complete", "failed", "absent"})
         => isIndexing' = FALSE]_vars

\* a run has returned after getCliPath threw in its last command
C3_Witness ==
  \E t \in Tasks :
    /\ IsRun(t) /\ tasks[t].pc = "done" /\ tasks[t].outcome = "failed"
    /\ tasks[t].results[Len(tasks[t].results)].res = Rejected(InvalidCliPath)
    /\ ~isIndexing

\* C4 as stated: a run whose doctor --json reports the workspace ready goes
\* to Done and invokes none of init, source add, index.
C4_ReadyInvokesNothing ==
  \A t \in Tasks :
    (IsRun(t) /\ DoctorResolved(t) /\ WellFormed(t) /\ ~hasErrors(Payload(t)))
      => Repairs(t) = <<>>

\* C4: a run whose doctor --json exits 0 invokes neither init nor source add;
\* it invokes index, once, and completes only when index has succeeded.
C4_ReadyRunsIndexOnly ==
  \A t \in Tasks :
    (IsRun(t) /\ DoctorResolved(t))
      => /\ Repairs(t) \in {<<>>, <<"index">>}
         /\ tasks[t].pc = "done" => Repairs(t) = <<"index">>
         /\ tasks[t].outcome = "complete"
              => /\ Len(tasks[t].results) = 2
                 /\ tasks[t].results[2].args = <<L("index")>>
                 /\ tasks[t].results[2].res.ok

\* a run has completed after a doctor --json that reported no error entry
C4_Witness ==
  \E t \in Tasks :
    /\ IsRun(t) /\ DoctorResolved(t) /\ WellFormed(t) /\ ~hasErrors(Payload(t))
    /\ tasks[t].outcome = "complete"
    /\ Repairs(t) = <<"index">>

\* C5: a run whose doctor --json exits 0 with an entry of status error
\* invokes init, then source add, then index, when each of them succeeds.
C5_ScenarioB ==
  \A t \in Tasks :
    (/\ IsRun(t) /\ DoctorResolved(t) /\ WellFormed(t) /\ hasErrors(Payload(t))
     /\ tasks[t].outcome = "complete")
      => Repairs(t) = <<"init", "source", "index">>

\* a run has completed on index alone after a payload with an error entry
C5_Witness ==
  \E t \in Tasks :
    /\ IsRun(t) /\ DoctorResolved(t) /\ WellFormed(t) /\ hasErrors(Payload(t))
    /\ tasks[t].outcome = "complete"
    /\ Repairs(t) = <<"index">>

\* C6: every readiness decision on a well-formed payload of doctor --json,
\* in a run and in the startup check, is ready exactly when no entry of the
\* payload has status error.
C6_ReadyIffNoError ==
  \A t \in Tasks :
    (DoctorResolved(t) /\ WellFormed(t) /\ Decided(t))
      => (DecidedReady(t) <=> ~hasErrors(Payload(t)))

\* the startup check has returned as ready on a payload with an error entry
C6_Witness ==
  \E t \in Tasks :
    /\ tasks[t].kind = "silentCheckAndIndex"
    /\ DoctorResolved(t) /\ WellFormed(t) /\ hasErrors(Payload(t))
    /\ tasks[t].outcome = "ready"

\* C7: when doctor --json exits 0 with a payload that cannot be parsed, the
\* decision is never ready: a run goes on to init, the startup check does not
\* return as ready.
C7_MalformedNotReady ==
  \A t \in Tasks :
    (DoctorResolved(t) /\ ~WellFormed(t) /\ Decided(t))
      => /\ ~DecidedReady(t)
         /\ IsRun(t) => tasks[t].step = "init"

\* a run has gone on to index after a payload that cannot be parsed
C7_Witness ==
  \E t \in Tasks :
    /\ IsRun(t) /\ DoctorResolved(t) /\ ~WellFormed(t) /\ Decided(t)
    /\ tasks[t].step = "index"

\* C8: a run whose init fails invokes neither source add nor index, invokes
\* init once, shows Indexing failed with the message of init, and has failed.
C8_InitFailureFatal ==
  \A t \in Tasks :
    \A i \in 1..Len(tasks[t].results) :
      (IsRun(t) /\ tasks[t].results[i].args = <<L("init")>> /\ ~tasks[t].results[i].res.ok)
        => /\ i = Len(tasks[t].results)
           /\ tasks[t].pc = "done"
           /\ tasks[t].outcome = "failed"
           /\ Repairs(t) \in {<<>>, <<"init">>}
           /\ tasks[t].msgs[Len(tasks[t].msgs)]
                = Msg("error", <<"Indexing failed: ">> \o tasks[t].results[i].res.val)

\* a run has failed at an init that was spawned and exited with an error
C8_Witness ==
  \E t \in Tasks :
    /\ IsRun(t) /\ tasks[t].outcome = "failed"
    /\ Spawns(t) = <<"doctor", "init">>
    /\ tasks[t].results[2].res = Rejected(<<"boom">>)

\* C9: with no workspace folder open no workflow spawns a process, fails,
\* shows the status indicator or sets isIndexing: each returns, with a warning
\* at most.
C9_NoWorkspaceNoProcess ==
  workspaceFolders = <<>>
    => /\ ~isIndexing
       /\ ~statusVisible
       /\ \A t \in Tasks :
            /\ tasks[t].cmds = <<>>
            /\ tasks[t].results = <<>>
            /\ tasks[t].pc \in {"idle", "ws", "done"}
            /\ tasks[t].pc = "done"
                 => tasks[t].outcome \in {"absent", "noeditor", "noselection"}
            /\ \A i \in 1..Len(tasks[t].msgs) : tasks[t].msgs[i].level = "warning"

\* a call graph request has returned for want of a workspace folder
C9_Witness ==
  /\ workspaceFolders = <<>>
  /\ \E t \in Tasks :
       /\ tasks[t].kind = "showCallGraph"
       /\ tasks[t].pc = "done"
       /\ tasks[t].outcome = "absent"

\* the configured path holds a character of the deny-list, at any place
ContainsMeta(p) == Range(p) \cap DenyChars # {}

\* C10: with a configured cliPath that holds one of ; & | grave accent $ no
\* workflow spawns a process, and every call of runContextKit fails with
\* Invalid CLI path.
C10_DenyListNeverSpawns ==
  ContainsMeta(config.cliPath)
    => \A t \in Tasks :
         /\ tasks[t].cmds = <<>>
         /\ tasks[t].pc # "proc"
         /\ \A i \in 1..Len(tasks[t].results) :
              tasks[t].results[i].res = Rejected(InvalidCliPath)

\* a query was attempted under a path whose second character is on the list
C10_Witness ==
  /\ Len(config.cliPath) = 2
  /\ config.cliPath[1] \notin DenyChars
  /\ config.cliPath[2] \in DenyChars
  /\ \E t \in Tasks :
       /\ tasks[t].kind \in QueryKinds
       /\ tasks[t].results # <<>>

\* task t is an invocation of a query workflow
IsQuery(t) == tasks[t].kind \in QueryKinds

\* the runContextKit call of query t has settled
QuerySettled(t) == IsQuery(t) /\ tasks[t].results # <<>>

\* what the runContextKit call of query t settled with
QueryResult(t) == tasks[t].results[1].res

\* the last message task t has shown
LastMsg(t) == tasks[t].msgs[Len(tasks[t].msgs)]

\* C11: a failure with no exit code (the program could not be started, its
\* message holds ENOENT) that reaches the error handling of a query is routed
\* to the install hint, never to the prompt that offers to index.
C11_LaunchFailureHint ==
  \A t \in Tasks :
    (QuerySettled(t) /\ QueryResult(t) = LaunchFailure(LaunchError))
      => /\ tasks[t].pc = "done"
         /\ LastMsg(t) = Msg("error", <<"ContextKit CLI not found">>)

\* a query whose program could not be started waits at the prompt Index Now
C11_Witness ==
  \E t \in Tasks :
    /\ QuerySettled(t) /\ QueryResult(t) = LaunchFailure(LaunchError)
    /\ tasks[t].pc = "offer"
    /\ LastMsg(t) = Msg("errorPrompt", <<"Workspace not indexed">>)

\* C13: a query that has shown the working status and has returned (content
\* published, no result, failed subprocess, invalid CLI path, failed
\* publishing) has hidden the indicator as its last write to it.
C13_StatusRestored ==
  /\ \A t \in Tasks :
       (IsQuery(t) /\ tasks[t].pc \in {"done", "offer"} /\ tasks[t].status # "none")
         => tasks[t].status = "hidden"
  /\ (\A t \in Tasks : tasks[t].status # "shown") => ~statusVisible

\* a query has returned after publishing its result failed
C13_Witness ==
  \E t \in Tasks :
    /\ IsQuery(t) /\ tasks[t].pc = "done" /\ tasks[t].outcome = "failed"
    /\ tasks[t].out # <<>>
    /\ tasks[t].status = "hidden"
    /\ ~statusVisible

\* C14: a query whose subprocess exits 0 with empty or blank stdout returns
\* with the notice of no result: no document is opened, the clipboard is not
\* written, handleError is not called.
C14_EmptyIsNotFailure ==
  [][\A t \in Tasks :
       /\ (/\ IsQuery(t) /\ tasks[t].results = <<>> /\ tasks'[t].results # <<>>
           /\ tasks'[t].results[1].res.ok
           /\ Trim(tasks'[t].results[1].res.val) = <<>>)
            => /\ tasks'[t].pc = "done"
               /\ tasks'[t].outcome = "empty"
               /\ tasks'[t].msgs = <<Msg("warning", EmptyNotice(tasks[t].kind))>>
               /\ tasks'[t].shown = <<>>
               /\ clipboard' = clipboard
       /\ tasks[t].outcome = "empty" => tasks'[t] = tasks[t]]_vars

\* a query has returned on a stdout of blanks
C14_Witness ==
  \E t \in Tasks :
    /\ QuerySettled(t) /\ QueryResult(t) = Resolved(<<" ">>)
    /\ tasks[t].outcome = "empty"

\* C15: in every query workflow a subprocess that exits 0 with content has
\* the content displayed and copied: the clipboard holds exactly the stdout.
C15_PublishOnSuccess ==
  [][\A t \in Tasks :
       (IsQuery(t) /\ tasks[t].outcome # "published" /\ tasks'[t].outcome = "published")
         => /\ tasks'[t].shown \in {tasks[t].out, <<"# Codebase Map">> \o tasks[t].out}
            /\ clipboard' = tasks[t].results[1].res.val]_vars

\* C15: a query whose subprocess exits 0 with content displays it; select by
\* text, select by selection, symbol lookup and map also copy exactly the
\* stdout to the clipboard, the call graph leaves the clipboard as it is.
C15_PublishExceptCallGraph ==
  [][\A t \in Tasks :
       (IsQuery(t) /\ tasks[t].outcome # "published" /\ tasks'[t].outcome = "published")
         => /\ tasks'[t].shown
                 = (IF tasks[t].kind = "getCodebaseMap"
                    THEN <<"# Codebase Map">> \o tasks[t].results[1].res.val
                    ELSE tasks[t].results[1].res.val)
            /\ clipboard' = (IF tasks[t].kind = "showCallGraph"
                             THEN clipboard
                             ELSE tasks[t].results[1].res.val)]_vars

\* a map has been displayed under its heading and its stdout copied
C15_Witness ==
  \E t \in Tasks :
    /\ tasks[t].kind = "getCodebaseMap" /\ tasks[t].outcome = "published"
    /\ tasks[t].shown = <<"# Codebase Map", "md">>
    /\ clipboard = <<"md">>

\* C12: a query failure whose message holds not initialized produces the
\* offer prompt; a run of indexWorkspace starts from that prompt exactly when
\* the answer is Index Now, and it passes the guard of every index request.
C12_OfferRouting ==
  [][\A t \in Tasks :
       /\ (/\ IsQuery(t) /\ tasks[t].results = <<>> /\ tasks'[t].results # <<>>
           /\ ~tasks'[t].results[1].res.ok
           /\ "not initialized" \in Range(tasks'[t].results[1].res.val))
            => /\ tasks'[t].pc = "offer"
               /\ tasks'[t].msgs = <<Msg("errorPrompt", <<"Workspace not indexed">>)>>
       /\ (IsQuery(t) /\ tasks'[t].kind = "indexWorkspace")
            => tasks[t].pc = "offer"
       /\ (tasks[t].pc = "offer" /\ tasks'[t] # tasks[t])
            => /\ tasks'[t].kind = "indexWorkspace" <=> tasks'[t].answer = "Index Now"
               /\ tasks'[t].kind # "indexWorkspace" => tasks'[t].pc = "done"
               /\ tasks'[t].kind = "indexWorkspace"
                    => /\ isIndexing => tasks'[t].outcome = "rejected"
                       /\ ~isIndexing => tasks'[t].pc = "ws"
                       /\ tasks'[t].cmds = <<>>
               /\ isIndexing' = isIndexing]_vars

\* the offer was accepted while a run was going on, and the guard rejected it
C12_Witness ==
  \E t, u \in Tasks :
    /\ tasks[t].via = "handleError" /\ tasks[t].answer = "Index Now"
    /\ tasks[t].outcome = "rejected"
    /\ InSession(u)

\* the last event of the process of task t, and the result its call settled with
LastEvent(t) == tasks[t].event[1]

LastResult(t) == tasks[t].results[Len(tasks[t].results)].res

\* C16: a call of the runner resolves with the whole accumulated stdout
\* exactly when the process closes with exit code 0; any other close rejects
\* with the stderr, or with Exit code n when stderr is empty; an error event
\* rejects with the launch error.
C16_RunnerResult ==
  \A t \in Tasks :
    tasks[t].event # <<>>
      => IF LastEvent(t).kind = "error"
         THEN LastResult(t) = [ok |-> FALSE, val |-> LastEvent(t).error]
         ELSE /\ LastResult(t).ok <=> LastEvent(t).code = 0
              /\ LastResult(t).ok
                   => LastResult(t).val = Accumulate(LastEvent(t).chunks)
              /\ ~LastResult(t).ok
                   => LastResult(t).val
                        = (IF LastEvent(t).stderr # <<>>
                           THEN LastEvent(t).stderr
                           ELSE <<"Exit code",
                                  IF LastEvent(t).code = NullCode
                                  THEN "null" ELSE ToString(LastEvent(t).code)>>)

\* a process closed without an exit code and without stderr after two chunks
C16_Witness ==
  \E t \in Tasks :
    /\ tasks[t].event # <<>>
    /\ LastEvent(t) = CloseEvent(NullCode, <<<<"m">>, <<"d">>>>, <<>>)
    /\ LastResult(t) = Rejected(<<"Exit code", "null">>)

\* C17: select by text passes the text the user typed, whatever characters
\* it holds, as one element of the argument vector; the length of the vector
\* and its other elements do not depend on the text; no spawn uses a shell.
C17_OneArgumentNoShell ==
  \A t \in Tasks :
    \A i \in 1..Len(tasks[t].cmds) :
      /\ tasks[t].cmds[i].shell = FALSE
      /\ tasks[t].kind = "selectContext"
           => /\ Len(tasks[t].cmds[i].args) = 6
              /\ tasks[t].cmds[i].args[2] = Trim(tasks[t].text)
              /\ [j \in {1, 3, 4, 5, 6} |-> tasks[t].cmds[i].args[j]]
                   = [j \in {1, 3, 4, 5, 6} |->
                        <<L("select"), <<>>, L("--budget"), <<"8000">>,
                          L("--format"), L("markdown")>>[j]]

\* a text with blanks, a semicolon and a dollar sign went out as one argument
C17_Witness ==
  \E t \in Tasks :
    /\ tasks[t].kind = "selectContext" /\ Len(tasks[t].cmds) = 1
    /\ tasks[t].cmds[1].args[2] = <<"a", ";", " ", "$", "(", "b">>
    /\ tasks[t].cmds[1].shell = FALSE

\* the notices that report a success
SuccessNotices ==
  {DoneNotice(kind) : kind \in QueryKinds} \cup {<<"Indexing complete">>}

\* a failure of a query or of a run has shown an error message
FailureShown(t) ==
  /\ (IsRun(t) /\ tasks[t].outcome = "failed")
       => LastMsg(t).level = "error"
  /\ (QuerySettled(t) /\ ~QueryResult(t).ok)
       => tasks[t].msgs # <<>> /\ LastMsg(t).level \in {"error", "errorPrompt"}

\* C18: with showNotifications off no workflow, a successful run of
\* indexWorkspace included, shows a success notice; a failure of a query or
\* of a run shows its error message whatever the setting.
C18_NotificationsGate ==
  \A t \in Tasks :
    /\ ~config.showNotifications
         => \A i \in 1..Len(tasks[t].msgs) : tasks[t].msgs[i].text \notin SuccessNotices
    /\ FailureShown(t)

\* with showNotifications off a run has completed and has shown its notice
C18_Witness ==
  /\ ~config.showNotifications
  /\ \E t \in Tasks :
       /\ IsRun(t) /\ tasks[t].outcome = "complete"
       /\ LastMsg(t) = Msg("info", <<"Indexing complete">>)

\* the doctor --json of the startup check t has settled as a failure
StartupCheckFailed(t) ==
  /\ tasks[t].kind = "silentCheckAndIndex"
  /\ tasks[t].results # <<>>
  /\ ~tasks[t].results[1].res.ok

\* C19: with autoIndex on, a startup check that finds the workspace not
\* ready goes on to the run of indexWorkspace without asking the user; with
\* autoIndex off, activation starts no startup check, no process and no run.
C19_AutoIndexOnOpen ==
  /\ config.autoIndex
       => \A t \in Tasks :
            StartupCheckFailed(t)
              => tasks[t].pc # "prompt" /\ tasks[t].outcome # "declined"
  /\ ~config.autoIndex
       => \A t \in Tasks : tasks[t].via # "silentCheckAndIndex"

\* the startup check found the workspace not ready, asked, and the user's
\* answer ended it without a run
C19_Witness ==
  /\ config.autoIndex
  /\ StartupCheckFailed(StartupTask)
  /\ tasks[StartupTask].outcome = "declined"
  /\ tasks[StartupTask].cmds # <<>>
  /\ \A i \in 1..Len(tasks[StartupTask].cmds) :
       tasks[StartupTask].cmds[i].args = <<L("doctor"), L("--json")>>

\* C20: a startup check whose doctor --json fails (exit status other than 0,
\* the program could not be started, invalid CLI path) shows no message and
\* no prompt.
C20_QuietStartupCheck ==
  \A t \in Tasks : StartupCheckFailed(t) => tasks[t].msgs = <<>>

\* the startup check under an invalid CLI path waits at its prompt
C20_Witness ==
  /\ StartupCheckFailed(StartupTask)
  /\ tasks[StartupTask].results[1].res = Rejected(InvalidCliPath)
  /\ tasks[StartupTask].pc = "prompt"
  /\ tasks[StartupTask].msgs
       = <<Msg("prompt", <<"ContextKit: Index this workspace for smart code search?">>)>>

\* the argument vectors of the commands task t has spawned, in order
Invoked(t) == [i \in 1..Len(tasks[t].cmds) |-> tasks[t].cmds[i].args]

IsPrefix(s, chain) == Len(s) <= Len(chain) /\ s = SubSeq(chain, 1, Len(s))

\* the commands of a run that repairs the workspace, for either source path
RepairChains ==
  {<<<<L("doctor"), L("--json")>>, <<L("init")>>,
     <<L("source"), L("add"), L(path)>>, <<L("index")>>>> : path \in {"./src", "."}}

\* the commands of a run whose doctor --json exits with status 0
ReadyChain == <<<<L("doctor"), L("--json")>>, <<L("index")>>>>

\* the doctor --json of run t has settled as a failure
DoctorFailed(t) ==
  /\ IsRun(t) /\ tasks[t].results # <<>>
  /\ ~tasks[t].results[1].res.ok

\* after a failed doctor --json, source add and index are started only after
\* the command before them exited with status 0; a run has at most one
\* process outstanding
StepByStep(t) ==
  /\ DoctorFailed(t)
       => /\ \A i \in 3..Len(tasks[t].cmds) : tasks[t].results[i - 1].res.ok
          /\ tasks[t].outcome = "complete" => Invoked(t) \in RepairChains
  /\ IsRun(t)
       => /\ Len(tasks[t].cmds) <= Len(tasks[t].results) + 1
          /\ Len(tasks[t].cmds) > Len(tasks[t].results) => tasks[t].pc = "proc"

\* C21 as stated: after a failed doctor --json a run invokes init, source
\* add and index, each after the one before it exited with status 0 and one
\* at a time, and the commands of any run are a prefix of doctor --json,
\* init, source add, index.
C21_RepairSequence ==
  \A t \in Tasks :
    /\ StepByStep(t)
    /\ IsRun(t) => \E chain \in RepairChains : IsPrefix(Invoked(t), chain)

\* C21: after a failed doctor --json a run invokes init, source add and
\* index, each after the one before it exited with status 0 and one at a
\* time; the commands of a run are a prefix of doctor --json, init, source
\* add, index when doctor --json failed, and of doctor --json, index when it
\* exited with status 0.
C21_RepairOrReadySequence ==
  \A t \in Tasks :
    /\ StepByStep(t)
    /\ IsRun(t)
         => /\ \E chain \in RepairChains \cup {ReadyChain} : IsPrefix(Invoked(t), chain)
            /\ Len(tasks[t].cmds) >= 2
                 => (Invoked(t)[2] = <<L("index")>> <=> tasks[t].results[1].res.ok)

\* a run whose doctor --json could not be started has repaired and indexed
C21_Witness ==
  \E t \in Tasks :
    /\ DoctorFailed(t)
    /\ tasks[t].results[1].res = LaunchFailure(LaunchError)
    /\ tasks[t].outcome = "complete"
    /\ Invoked(t) \in RepairChains

\* what the existence check of run t found
Probe(t) == tasks[t].probe[1]

\* the argument vector of the source add of run t, spawned or about to be
AddArgs(t) ==
  IF Len(tasks[t].cmds) >= 3 THEN tasks[t].cmds[3].args ELSE tasks[t].argv

\* C22: the path of source add is ./src exactly when the existence check,
\* made after init has succeeded, found an entry src under the root, and .
\* otherwise; a check that fails counts as no entry and the run goes on to
\* source add.
C22_SourcePath ==
  \A t \in Tasks :
    (IsRun(t) /\ tasks[t].probe # <<>>)
      => /\ Len(tasks[t].results) >= 2
         /\ tasks[t].results[2].args = <<L("init")>>
         /\ tasks[t].results[2].res.ok
         /\ AddArgs(t) \in {<<L("source"), L("add"), L("./src")>>,
                             <<L("source"), L("add"), L(".")>>}
         /\ IF Probe(t).stat = Rejected(<<"Unavailable">>)
            THEN AddArgs(t)[3] = L(".")
            ELSE AddArgs(t)[3] = L("./src") <=> Probe(t).entry # "none"
         /\ tasks[t].step \in {"add", "index"}
         /\ tasks[t].outcome = "failed" => Len(tasks[t].results) >= 3

\* the check failed although a directory src exists, and the run completed
\* with source add .
C22_Witness ==
  \E t \in Tasks :
    /\ IsRun(t) /\ tasks[t].probe # <<>>
    /\ Probe(t) = [entry |-> "directory", stat |-> Rejected(<<"Unavailable">>)]
    /\ tasks[t].outcome = "complete"
    /\ Invoked(t)[3] = <<L("source"), L("add"), L(".")>>

\* run t has entered the progress callback: it passed the guard with a
\* workspace folder and set isIndexing
Started(t) == IsRun(t) /\ tasks[t].progress # "none"

\* the reports of run t: Indexing complete, and the error messages
Reports(t) ==
  {i \in 1..Len(tasks[t].msgs) :
     \/ tasks[t].msgs[i].text = <<"Indexing complete">>
     \/ tasks[t].msgs[i].level = "error"}

\* C23: a run that has entered the progress callback and has returned has
\* shown exactly one report, Indexing complete or Indexing failed, and a
\* run that has not returned has shown none; the failure report carries the
\* message of the failure of init, source add or index that stopped the
\* run, and a failure of doctor --json is never the one reported.
C23_OneTerminalReport ==
  \A t \in Tasks :
    Started(t)
      => LET last == tasks[t].results[Len(tasks[t].results)]
         IN /\ tasks[t].pc # "done" => Reports(t) = {}
            /\ tasks[t].pc = "done"
                 => /\ Cardinality(Reports(t)) = 1
                    /\ tasks[t].outcome \in {"complete", "failed"}
                    /\ tasks[t].outcome = "complete"
                         => /\ tasks[t].msgs = <<Msg("info", <<"Indexing complete">>)>>
                            /\ last.args = <<L("index")>> /\ last.res.ok
                    /\ tasks[t].outcome = "failed"
                         => /\ tasks[t].msgs
                                 = <<Msg("error", <<"Indexing failed: ">> \o last.res.val)>>
                            /\ ~last.res.ok
                            /\ last.args[1] \in {L("init"), L("source"), L("index")}

\* a run has failed at an index that closed without an exit code, after a
\* doctor --json that had failed too
C23_Witness ==
  \E t \in Tasks :
    /\ Started(t) /\ tasks[t].outcome = "failed"
    /\ ~tasks[t].results[1].res.ok
    /\ Len(tasks[t].results) = 4
    /\ tasks[t].results[4].args = <<L("index")>>
    /\ tasks[t].msgs = <<Msg("error", <<"Indexing failed: ", "Exit code", "null">>)>>

\* run t has a process that has not exited
Outstanding(t) == IsRun(t) /\ tasks[t].pc = "proc"

\* C24: as long as a process of a run has not exited the run has not
\* returned, isIndexing is true, no step sets it to false, and every index
\* request made meanwhile is rejected.
C24_HungProcessHoldsLock ==
  [][\A t \in Tasks :
       (Outstanding(t) /\ tasks'[t] = tasks[t])
         => /\ tasks[t].outcome = "none"
            /\ isIndexing /\ isIndexing'
            /\ \A u \in Tasks :
                 (~IsRun(u) /\ tasks'[u].kind = "indexWorkspace")
                   => tasks'[u].outcome = "rejected"]_vars

\* a run waits for its process while another run, which had passed the
\* guard before either set the flag, has completed and has cleared the flag
C24_Witness ==
  \E t, u \in Tasks :
    /\ Outstanding(t)
    /\ IsRun(u) /\ tasks[u].outcome = "complete"
    /\ ~isIndexing

\* C25: when every process emits close or error and the existence check and
\* the editor operations settle, a run that has entered the progress
\* callback eventually returns as complete or failed with isIndexing false,
\* and a query that has shown the status indicator eventually hides it.
C25_Termination ==
  \A t \in Tasks :
    /\ Started(t) /\ tasks[t].pc # "done"
         ~> /\ IsRun(t) /\ tasks[t].pc = "done"
            /\ tasks[t].outcome \in {"complete", "failed"}
            /\ ~isIndexing
    /\ IsQuery(t) /\ tasks[t].status = "shown"
         ~> tasks[t].status = "hidden"

\* a query that failed as not initialized has hidden the indicator, its
\* offer was accepted, and the run that followed has repaired and completed
C25_Witness ==
  \E t \in Tasks :
    /\ IsRun(t) /\ tasks[t].via = "handleError"
    /\ tasks[t].outcome = "complete"
    /\ Len(tasks[t].results) = 4
    /\ ~isIndexing

\* query t is between its showStatusBar and its return
InFlight(t) == IsQuery(t) /\ tasks[t].pc \in {"cli", "proc", "open", "show", "clip"}

\* C26: under every interleaving of queries the status indicator is visible
\* whenever a query has a process outstanding, and hidden whenever no query
\* is between its showStatusBar and its return.
C26_StatusUnderOverlap ==
  /\ (\E t \in Tasks : IsQuery(t) /\ tasks[t].pc = "proc") => statusVisible
  /\ (\A t \in Tasks : ~InFlight(t)) => ~statusVisible

\* a query waits for its process, a query started meanwhile has published
\* and has hidden the indicator
C26_Witness ==
  \E t, u \in Tasks :
    /\ IsQuery(t) /\ tasks[t].pc = "proc"
    /\ IsQuery(u) /\ tasks[u].outcome = "published"
    /\ ~statusVisible

\* the workflows other than indexWorkspace
Bystanders == QueryKinds \cup {"showStatus", "silentCheckAndIndex"}

\* task t is an invocation of a workflow other than indexWorkspace that has
\* not returned
Bystander(t) == tasks[t].kind \in Bystanders /\ tasks[t].pc # "done"

\* C27: a step of a query, of the status display or of the startup check
\* leaves isIndexing as it is, is never the rejection Indexing already in
\* progress, and has the same outcome whatever isIndexing is; such a
\* workflow is never held up while isIndexing is true; isIndexing changes
\* only in steps of an invocation of indexWorkspace.
C27_IndependentOfLock ==
  [][/\ \A t \in Tasks :
          (tasks'[t] # tasks[t] /\ tasks'[t].kind \in Bystanders)
            => /\ isIndexing' = isIndexing
               /\ tasks'[t].outcome # "rejected"
               /\ \A i \in 1..Len(tasks'[t].msgs) :
                    tasks'[t].msgs[i].text # <<"Indexing already in progress...">>
     /\ isIndexing' # isIndexing
          => \E u \in Tasks : tasks'[u] # tasks[u] /\ IsRun(u) /\ tasks'[u].kind = "indexWorkspace"
     /\ \A t \in Tasks :
          /\ (activated /\ tasks[t].pc = "idle" /\ t <= MaxLockReq)
               => ENABLED QueryCommand(t, "selectContext", TRUE, <<>>)
                  /\ ENABLED StatusCommand(t)
          /\ (Bystander(t) /\ tasks[t].pc = "ws")
               => ENABLED (QueryResume(t, <<>>) \/ StatusResume(t) \/ SilentResume(t))
          /\ (Bystander(t) /\ tasks[t].pc = "cli") => ENABLED CliResume(t)
          /\ (Bystander(t) /\ tasks[t].pc = "proc")
               => \A res \in LockCloses(tasks[t].step) : ENABLED ProcClose(t, res)]_vars

\* a query has published while a run of indexWorkspace was in its session
C27_Witness ==
  \E t, u \in Tasks :
    /\ isIndexing
    /\ InSession(u)
    /\ IsQuery(t) /\ tasks[t].outcome = "published"

\* the part of the query argument of spawn i of task t that comes from the
\* selection: what follows the words Related to
Derived(t, i) == Tail(tasks[t].cmds[i].args[2])

\* the first SliceLen units of the selection of task t
Prefix(t) ==
  SubSeq(tasks[t].text, 1,
         IF Len(tasks[t].text) < SliceLen THEN Len(tasks[t].text) ELSE SliceLen)

\* the length bound of the query of select by selection
DerivedFromPrefix(t) ==
  \A i \in 1..Len(tasks[t].cmds) :
    /\ Head(tasks[t].cmds[i].args[2]) = "Related to: "
    /\ Len(Derived(t, i)) <= SliceLen
    /\ Derived(t, i) = Trim(Prefix(t))

\* C28: the part of the query of select by selection that comes from the
\* selection is the trimmed first 500 units of it, so at most 500 long, and
\* the tool is spawned only when that part is not empty, also for a
\* selection whose first 500 units are blank.
C28_BoundedSelectionQuery ==
  \A t \in Tasks :
    tasks[t].kind = "selectContextFromSelection"
      => /\ DerivedFromPrefix(t)
         /\ \A i \in 1..Len(tasks[t].cmds) : Derived(t, i) # <<>>

\* a selection of 500 blanks and one letter went out as an empty query
C28_Witness ==
  \E t \in Tasks :
    /\ tasks[t].kind = "selectContextFromSelection"
    /\ tasks[t].text = Repeat(" ", SliceLen) \o <<"x">>
    /\ Len(tasks[t].cmds) = 1
    /\ tasks[t].cmds[1].args[2] = <<"Related to: ">>

====
